---- MODULE Spec2Model ----
(***************************************************************************)
(* A model of custom_chatbot.py: the query interpreter of a command-line   *)
(* financial chatbot.  Text is modelled as sequences of one-character      *)
(* strings, so that substring tests, regular-expression scans, case        *)
(* folding and whitespace normalisation are computed character by          *)
(* character as the Python code computes them.  Metric values (floats in   *)
(* the code) are modelled by integers (whole USD millions).                *)
(***************************************************************************)
EXTENDS Integers, Sequences, FiniteSets, TLC

VARIABLES
    ctx,        \* BotContext: [rows, companies, years]
    loaded,     \* the BotContext as load_data returned it (history variable)
    query,      \* the text handed to the operation under study
    response,   \* what the operation returned (Pending before it ran)
    pc,         \* position of the program
    pinned      \* history variable: a (query, response) pair seen earlier in the session

vars == <<ctx, loaded, query, response, pc, pinned>>

(***************************************************************************)
(* Characters and strings                                                  *)
(***************************************************************************)
UpperLetters == <<"A","B","C","D","E","F","G","H","I","J","K","L","M",
                  "N","O","P","Q","R","S","T","U","V","W","X","Y","Z">>
LowerLetters == <<"a","b","c","d","e","f","g","h","i","j","k","l","m",
                  "n","o","p","q","r","s","t","u","v","w","x","y","z">>
Digits == <<"0","1","2","3","4","5","6","7","8","9">>

\* The characters of the model in code point order (the order Python's
\* sorted() compares strings by).
Alphabet == <<"\t", " ", "$", "%", "(", ")", "+", ",", "-", ".">> \o Digits
            \o <<"?">> \o UpperLetters \o LowerLetters

Chars == {Alphabet[i] : i \in 1..Len(Alphabet)}

CodePoint == [c \in Chars |-> CHOOSE i \in 1..Len(Alphabet) : Alphabet[i] = c]

\* str.lower() on one character
LowerChar == [c \in Chars |->
                IF \E i \in 1..26 : UpperLetters[i] = c
                THEN LowerLetters[CHOOSE i \in 1..26 : UpperLetters[i] = c]
                ELSE c]

\* str.lower()
Lower(s) == [i \in 1..Len(s) |-> LowerChar[s[i]]]

\* the characters the regular expression class \s matches
Whitespace == {" ", "\t"}

IsDigit(c) == \E i \in 1..10 : Digits[i] = c

DigitValue(c) == (CHOOSE i \in 1..10 : Digits[i] = c) - 1

\* s[i..] , Python slicing
Drop(s, n) == SubSeq(s, n + 1, Len(s))

\* str.strip()
RECURSIVE LStrip(_)
LStrip(s) == IF s # <<>> /\ Head(s) \in Whitespace THEN LStrip(Tail(s)) ELSE s

RECURSIVE RStrip(_)
RStrip(s) == IF s # <<>> /\ s[Len(s)] \in Whitespace
             THEN RStrip(SubSeq(s, 1, Len(s) - 1)) ELSE s

Strip(s) == RStrip(LStrip(s))

\* re.sub(r"\s+", " ", s): every maximal run of whitespace becomes one space
RECURSIVE CollapseWs(_)
CollapseWs(s) ==
    IF s = <<>> THEN <<>>
    ELSE IF Head(s) \in Whitespace
         THEN <<" ">> \o CollapseWs(LStrip(s))
         ELSE <<Head(s)>> \o CollapseWs(Tail(s))

normalize_text(text) == CollapseWs(Lower(Strip(text)))

\* needle in hay  (Python's substring test)
StartsAt(needle, hay, i) ==
    /\ i + Len(needle) - 1 <= Len(hay)
    /\ \A k \in 1..Len(needle) : hay[i + k - 1] = needle[k]

Contains(needle, hay) == \E i \in 1..(Len(hay) - Len(needle) + 1) : StartsAt(needle, hay, i)

\* concatenation of a sequence of strings
RECURSIVE Cat(_)
Cat(ss) == IF ss = <<>> THEN <<>> ELSE Head(ss) \o Cat(Tail(ss))

\* " ".join / ", ".join
RECURSIVE Join(_, _)
Join(sep, ss) == IF ss = <<>> THEN <<>>
                 ELSE IF Len(ss) = 1 THEN ss[1]
                 ELSE ss[1] \o sep \o Join(sep, Tail(ss))

\* Python's < on strings: lexicographic by code point
RECURSIVE StrLess(_, _)
StrLess(a, b) ==
    IF b = <<>> THEN FALSE
    ELSE IF a = <<>> THEN TRUE
    ELSE IF CodePoint[Head(a)] # CodePoint[Head(b)]
         THEN CodePoint[Head(a)] < CodePoint[Head(b)]
         ELSE StrLess(Tail(a), Tail(b))

\* int(s) for a string of decimal digits
RECURSIVE ParseInt(_)
ParseInt(s) == IF s = <<>> THEN 0
               ELSE 10 * ParseInt(SubSeq(s, 1, Len(s) - 1)) + DigitValue(s[Len(s)])

\* str(n) for an integer
RECURSIVE NatStr(_)
NatStr(n) == IF n < 10 THEN <<Digits[n + 1]>>
             ELSE NatStr(n \div 10) \o <<Digits[(n % 10) + 1]>>

IntStr(n) == IF n < 0 THEN <<"-">> \o NatStr(-n) ELSE NatStr(n)

Abs(n) == IF n < 0 THEN -n ELSE n

(***************************************************************************)
(* Optional values: Python's None is <<>>, a value v is <<v>>.              *)
(***************************************************************************)
Absent == <<>>
Some(v) == <<v>>
IsAbsent(o) == o = <<>>
Val(o) == o[1]

(***************************************************************************)
(* METRIC_ALIASES and the dataset                                          *)
(***************************************************************************)
REVENUE == "Total Revenue (USD millions)"
NET_INCOME == "Net Income (USD millions)"
ASSETS == "Total Assets (USD millions)"
LIABILITIES == "Total Liabilities (USD millions)"
CASH_FLOW == "Operating Cash Flow (USD millions)"

Metrics == {REVENUE, NET_INCOME, ASSETS, LIABILITIES, CASH_FLOW}

\* the dictionary, as a sequence of (alias, metric) items in insertion order
METRIC_ALIASES == <<
    <<<<"r","e","v","e","n","u","e">>, REVENUE>>,
    <<<<"t","o","t","a","l"," ","r","e","v","e","n","u","e">>, REVENUE>>,
    <<<<"i","n","c","o","m","e">>, NET_INCOME>>,
    <<<<"n","e","t"," ","i","n","c","o","m","e">>, NET_INCOME>>,
    <<<<"p","r","o","f","i","t">>, NET_INCOME>>,
    <<<<"a","s","s","e","t","s">>, ASSETS>>,
    <<<<"t","o","t","a","l"," ","a","s","s","e","t","s">>, ASSETS>>,
    <<<<"l","i","a","b","i","l","i","t","i","e","s">>, LIABILITIES>>,
    <<<<"t","o","t","a","l"," ","l","i","a","b","i","l","i","t","i","e","s">>, LIABILITIES>>,
    <<<<"d","e","b","t">>, LIABILITIES>>,
    <<<<"c","a","s","h"," ","f","l","o","w">>, CASH_FLOW>>,
    <<<<"o","p","e","r","a","t","i","n","g"," ","c","a","s","h"," ","f","l","o","w">>, CASH_FLOW>>,
    <<<<"c","f","o">>, CASH_FLOW>> >>

COMPANY == "Company"
FISCAL_YEAR == "Fiscal Year (filename)"

\* one cleaned record of load_data: company, fiscal year and one value per metric
Row(company, year, rev, inc, assets, liab, cfo) ==
    [f \in {COMPANY, FISCAL_YEAR} \cup Metrics |->
        CASE f = COMPANY -> company
          [] f = FISCAL_YEAR -> year
          [] f = REVENUE -> rev
          [] f = NET_INCOME -> inc
          [] f = ASSETS -> assets
          [] f = LIABILITIES -> liab
          [] f = CASH_FLOW -> cfo]

Range(s) == {s[i] : i \in 1..Len(s)}

\* sorted(set of strings)
RECURSIVE SortedStrings(_)
SortedStrings(S) ==
    IF S = {} THEN <<>>
    ELSE LET m == CHOOSE x \in S : \A y \in S \ {x} : StrLess(x, y)
         IN <<m>> \o SortedStrings(S \ {m})

\* sorted(set of integers)
RECURSIVE SortedInts(_)
SortedInts(S) ==
    IF S = {} THEN <<>>
    ELSE LET m == CHOOSE x \in S : \A y \in S : x <= y
         IN <<m>> \o SortedInts(S \ {m})

\* load_data, from the cleaned rows on: the context it returns
load_data(rows) ==
    [rows |-> rows,
     companies |-> SortedStrings({rows[i][COMPANY] : i \in 1..Len(rows)}),
     years |-> SortedInts({rows[i][FISCAL_YEAR] : i \in 1..Len(rows)})]

(***************************************************************************)
(* sorted(xs, key=..., reverse=True): stable, so items with equal keys     *)
(* keep their original order.  keys[i] is the key of xs[i].                *)
(***************************************************************************)
RECURSIVE InsertDesc(_, _)
InsertDesc(sortedPairs, p) ==
    IF sortedPairs = <<>> THEN <<p>>
    ELSE IF Head(sortedPairs)[1] >= p[1]
         THEN <<Head(sortedPairs)>> \o InsertDesc(Tail(sortedPairs), p)
         ELSE <<p>> \o sortedPairs

RECURSIVE SortPairsDesc(_, _)
SortPairsDesc(done, rest) ==
    IF rest = <<>> THEN done
    ELSE SortPairsDesc(InsertDesc(done, Head(rest)), Tail(rest))

\* a sort that loses the original order among equal keys
RECURSIVE InsertDescUnstable(_, _)
InsertDescUnstable(sortedPairs, p) ==
    IF sortedPairs = <<>> THEN <<p>>
    ELSE IF Head(sortedPairs)[1] > p[1]
         THEN <<Head(sortedPairs)>> \o InsertDescUnstable(Tail(sortedPairs), p)
         ELSE <<p>> \o sortedPairs

RECURSIVE SortPairsDescUnstable(_, _)
SortPairsDescUnstable(done, rest) ==
    IF rest = <<>> THEN done
    ELSE SortPairsDescUnstable(InsertDescUnstable(done, Head(rest)), Tail(rest))

SortedDescUnstable(xs, keys) ==
    LET pairs == [i \in 1..Len(xs) |-> <<keys[i], xs[i]>>]
        out == SortPairsDescUnstable(<<>>, pairs)
    IN [i \in 1..Len(out) |-> out[i][2]]

SortedDesc(xs, keys) ==
    LET pairs == [i \in 1..Len(xs) |-> <<keys[i], xs[i]>>]
        out == SortPairsDesc(<<>>, pairs)
    IN [i \in 1..Len(out) |-> out[i][2]]

\* [x for x in xs if Keep[x]] with keep given per index
RECURSIVE FilterSeq(_, _)
FilterSeq(xs, keep) ==
    IF xs = <<>> THEN <<>>
    ELSE (IF keep[1] THEN <<Head(xs)>> ELSE <<>>) \o FilterSeq(Tail(xs), Tail(keep))

(***************************************************************************)
(* Entity extractors                                                       *)
(***************************************************************************)
\* the loop of find_company over companies, from index i on
RECURSIVE FirstCompanyIn(_, _)
FirstCompanyIn(q, companies) ==
    IF companies = <<>> THEN Absent
    ELSE IF Contains(Lower(Head(companies)), q) THEN Some(Head(companies))
    ELSE FirstCompanyIn(q, Tail(companies))

\* a find_company that compares the company name as written, not lowercased
RECURSIVE FirstCompanyInCaseSensitive(_, _)
FirstCompanyInCaseSensitive(q, companies) ==
    IF companies = <<>> THEN Absent
    ELSE IF Contains(Head(companies), q) THEN Some(Head(companies))
    ELSE FirstCompanyInCaseSensitive(q, Tail(companies))

find_company_case_sensitive(qry, companies) ==
    FirstCompanyInCaseSensitive(normalize_text(qry), companies)

find_company(qry, companies) == FirstCompanyIn(normalize_text(qry), companies)

\* the regular expression 20\d{2} matches at position i of s
YearAt(s, i) ==
    /\ i + 3 <= Len(s)
    /\ s[i] = "2"
    /\ s[i + 1] = "0"
    /\ IsDigit(s[i + 2])
    /\ IsDigit(s[i + 3])

\* re.search(r"(20\d{2})", s): the leftmost match, as Some(text) or Absent
SearchYear(s) ==
    IF \E i \in 1..Len(s) : YearAt(s, i)
    THEN LET i == CHOOSE j \in 1..Len(s) :
                     YearAt(s, j) /\ \A k \in 1..(j - 1) : ~YearAt(s, k)
         IN Some(SubSeq(s, i, i + 3))
    ELSE Absent

\* a find_year that returns the first match without looking it up in years
find_year_unchecked(qry, years) ==
    LET m == SearchYear(qry)
    IN IF ~IsAbsent(m) THEN Some(ParseInt(Val(m))) ELSE Absent

find_year(qry, years) ==
    LET m == SearchYear(qry)
    IN IF ~IsAbsent(m)
       THEN LET year == ParseInt(Val(m))
            IN IF year \in Range(years) THEN Some(year) ELSE Absent
       ELSE Absent

\* re.findall(r"20\d{2}", s): the non-overlapping matches, left to right
RECURSIVE FindAllYears(_)
FindAllYears(s) ==
    IF \E i \in 1..Len(s) : YearAt(s, i)
    THEN LET i == CHOOSE j \in 1..Len(s) :
                     YearAt(s, j) /\ \A k \in 1..(j - 1) : ~YearAt(s, k)
         IN <<SubSeq(s, i, i + 3)>> \o FindAllYears(Drop(s, i + 3))
    ELSE <<>>

\* sorted(METRIC_ALIASES.items(), key=lambda x: len(x[0]), reverse=True)
AliasesByLength ==
    SortedDesc(METRIC_ALIASES, [i \in 1..Len(METRIC_ALIASES) |-> Len(METRIC_ALIASES[i][1])])

RECURSIVE FirstAliasIn(_, _)
FirstAliasIn(q, items) ==
    IF items = <<>> THEN Absent
    ELSE IF Contains(Head(items)[1], q) THEN Some(Head(items)[2])
    ELSE FirstAliasIn(q, Tail(items))

\* a find_metric that walks the dictionary in insertion order
find_metric_unsorted(qry) == FirstAliasIn(normalize_text(qry), METRIC_ALIASES)

find_metric(qry) == FirstAliasIn(normalize_text(qry), AliasesByLength)

(***************************************************************************)
(* money: f"${value:,.0f}M" for an integral value                          *)
(***************************************************************************)
RECURSIVE GroupThousands(_)
GroupThousands(ds) ==
    IF Len(ds) <= 3 THEN ds
    ELSE GroupThousands(SubSeq(ds, 1, Len(ds) - 3)) \o <<",">> \o SubSeq(ds, Len(ds) - 2, Len(ds))

money(value) ==
    <<"$">> \o (IF value < 0 THEN <<"-">> ELSE <<>>)
            \o GroupThousands(NatStr(Abs(value))) \o <<"M">>

\* the first row of ctx.rows for the company (compared case-insensitively) and year
RECURSIVE FirstRow(_, _, _)
FirstRow(rows, company, year) ==
    IF rows = <<>> THEN Absent
    ELSE IF Lower(Head(rows)[COMPANY]) = Lower(company) /\ Head(rows)[FISCAL_YEAR] = year
         THEN Some(Head(rows))
         ELSE FirstRow(Tail(rows), company, year)

get_row(c, company, year) == FirstRow(c.rows, company, year)

(***************************************************************************)
(* Python operations that can raise                                        *)
(***************************************************************************)
Raise(error) == [kind |-> "raise", error |-> error]

\* a / b on numbers: raises ZeroDivisionError when b is 0, else the quotient
\* (kept exact, as numerator and denominator)
TrueDiv(a, b) == IF b = 0 THEN [raised |-> TRUE, num |-> 0, den |-> 1]
                 ELSE [raised |-> FALSE, num |-> a, den |-> b]

\* pct with no guard on old
PctChangeUnguarded(delta, old) ==
    LET d == TrueDiv(delta, old)
    IN [raised |-> d.raised, num |-> d.num * 100, den |-> d.den]

\* pct = (delta / old) * 100 if old else 0
PctChange(delta, old) ==
    IF old # 0
    THEN LET d == TrueDiv(delta, old)
         IN [raised |-> d.raised, num |-> d.num * 100, den |-> d.den]
    ELSE [raised |-> FALSE, num |-> 0, den |-> 1]

\* round(n / d) to the nearest integer, ties to even, for n >= 0 and d > 0
RoundHalfEven(n, d) ==
    LET f == n \div d
        r == n % d
    IN IF 2 * r < d THEN f
       ELSE IF 2 * r > d THEN f + 1
       ELSE IF f % 2 = 0 THEN f ELSE f + 1

\* f"{abs(pct):.2f}" for pct = num / den
FormatAbsPct(pct) ==
    LET h == RoundHalfEven(Abs(pct.num) * 100, Abs(pct.den))
        frac == h % 100
    IN NatStr(h \div 100) \o <<".">> \o <<Digits[(frac \div 10) + 1], Digits[(frac % 10) + 1]>>

(***************************************************************************)
(* Trigger words                                                           *)
(***************************************************************************)
W_help == <<"h","e","l","p">>
W_h == <<"h">>
W_qmark == <<"?">>
W_list_companies == <<"l","i","s","t"," ","c","o","m","p","a","n","i","e","s">>
W_companies == <<"c","o","m","p","a","n","i","e","s">>
W_list_years == <<"l","i","s","t"," ","y","e","a","r","s">>
W_years == <<"y","e","a","r","s">>
W_top == <<"t","o","p">>
W_highest == <<"h","i","g","h","e","s","t">>
W_compare == <<"c","o","m","p","a","r","e">>
W_growth == <<"g","r","o","w","t","h">>
W_change == <<"c","h","a","n","g","e">>
W_summary == <<"s","u","m","m","a","r","y">>
W_overview == <<"o","v","e","r","v","i","e","w">>
W_exit == <<"e","x","i","t">>
W_quit == <<"q","u","i","t">>

\* Python truthiness of an optional string: None and "" are both false
TruthyStr(o) == ~IsAbsent(o) /\ Val(o) # <<>>

\* Python truthiness of an optional metric name
TruthyMetric(o) == ~IsAbsent(o) /\ Val(o) # ""

\* Python truthiness of an optional year
TruthyYear(o) == ~IsAbsent(o) /\ Val(o) # 0

(***************************************************************************)
(* handle_query and its handlers.  A response is a record: kind names the  *)
(* f-string template that produced it, the other fields are the values     *)
(* interpolated into it.                                                   *)
(***************************************************************************)
help_text(c) == [kind |-> "help", companies |-> Join(<<",", " ">>, c.companies),
                 years |-> Join(<<",", " ">>, [i \in 1..Len(c.years) |-> IntStr(c.years[i])])]

\* [r for r in ctx.rows if int(r["Fiscal Year (filename)"]) == year]
RowsOfYear(c, year) ==
    FilterSeq(c.rows, [i \in 1..Len(c.rows) |-> c.rows[i][FISCAL_YEAR] = year])

\* a descending sort by metric that does not keep the load order among ties
SortedByMetricUnstable(rows, metric) ==
    SortedDescUnstable(rows, [i \in 1..Len(rows) |-> rows[i][metric]])

\* sorted(yearly, key=lambda r: float(r[metric]), reverse=True)
SortedByMetric(rows, metric) ==
    SortedDesc(rows, [i \in 1..Len(rows) |-> rows[i][metric]])

\* the branch of "top" / "highest"
Ranking(c, q) ==
    LET metric == find_metric(q)
        year == find_year(q, c.years)
    IN IF ~TruthyMetric(metric) \/ ~TruthyYear(year)
       THEN [kind |-> "ranking_guidance"]
       ELSE LET yearly == RowsOfYear(c, Val(year))
                ranked == SortedByMetric(yearly, Val(metric))
            IN IF ranked = <<>> THEN Raise("IndexError")
               ELSE LET top_row == ranked[1]
                    IN [kind |-> "ranking", metric |-> Val(metric), year |-> Val(year),
                        company |-> top_row[COMPANY],
                        value |-> money(top_row[Val(metric)])]

\* the branch of "compare"
Comparison(c, q) ==
    LET metric == find_metric(q)
        year == find_year(q, c.years)
    IN IF ~TruthyMetric(metric) \/ ~TruthyYear(year)
       THEN [kind |-> "compare_guidance"]
       ELSE LET yearly == SortedByMetric(RowsOfYear(c, Val(year)), Val(metric))
            IN [kind |-> "compare", metric |-> Val(metric), year |-> Val(year),
                lines |-> [i \in 1..Len(yearly) |->
                             <<yearly[i][COMPANY], money(yearly[i][Val(metric)])>>]]

\* the years in order of first appearance: the set is built, the sort forgotten
RECURSIVE FirstOccurrences(_, _)
FirstOccurrences(xs, seen) ==
    IF xs = <<>> THEN <<>>
    ELSE IF Head(xs) \in seen THEN FirstOccurrences(Tail(xs), seen)
    ELSE <<Head(xs)>> \o FirstOccurrences(Tail(xs), seen \cup {Head(xs)})

GrowthYearsUnsorted(q) ==
    LET found == FindAllYears(q)
    IN FirstOccurrences([i \in 1..Len(found) |-> ParseInt(found[i])], {})

\* sorted(set(int(y) for y in re.findall(r"20\d{2}", q)))
GrowthYears(q) ==
    LET found == FindAllYears(q)
    IN SortedInts({ParseInt(found[i]) : i \in 1..Len(found)})

\* the branch of "growth" / "change"
Growth(c, q) ==
    LET company == find_company(q, c.companies)
        metric == find_metric(q)
        years == GrowthYears(q)
    IN IF ~TruthyStr(company) \/ ~TruthyMetric(metric) \/ Len(years) < 2
       THEN [kind |-> "growth_guidance"]
       ELSE LET y1 == years[1]
                y2 == years[Len(years)]
            IN IF y1 \notin Range(c.years) \/ y2 \notin Range(c.years)
               THEN [kind |-> "growth_years",
                     years |-> Join(<<",", " ">>, [i \in 1..Len(c.years) |-> IntStr(c.years[i])])]
               ELSE LET r1 == get_row(c, Val(company), y1)
                        r2 == get_row(c, Val(company), y2)
                    IN IF IsAbsent(r1) \/ IsAbsent(r2)
                       THEN [kind |-> "growth_missing", company |-> Val(company),
                             y1 |-> y1, y2 |-> y2]
                       ELSE LET old == Val(r1)[Val(metric)]
                                new == Val(r2)[Val(metric)]
                                delta == new - old
                                pct == PctChange(delta, old)
                                sign == IF delta >= 0 THEN "+" ELSE "-"
                            IN IF pct.raised THEN Raise("ZeroDivisionError")
                               ELSE [kind |-> "growth", company |-> Val(company),
                                     metric |-> Val(metric),
                                     old |-> money(old), y1 |-> y1,
                                     new |-> money(new), y2 |-> y2,
                                     change |-> <<sign>> \o money(Abs(delta)) \o <<" ", "(">>
                                                \o <<sign>> \o FormatAbsPct(pct) \o <<"%", ")">>]

\* if company and year and metric: the point lookup
PointLookup(c, company, year, metric) ==
    LET row == get_row(c, company, year)
    IN IF IsAbsent(row)
       THEN [kind |-> "lookup_nodata", company |-> company, year |-> year]
       ELSE [kind |-> "lookup", company |-> company, metric |-> metric, year |-> year,
             value |-> money(Val(row)[metric])]

\* a summary of the latest year the company itself has a record of
SummaryOfOwnLatest(c, company) ==
    LET own == {c.rows[i][FISCAL_YEAR] : i \in {j \in 1..Len(c.rows) :
                                                   Lower(c.rows[j][COMPANY]) = Lower(company)}}
    IN IF own = {} THEN [kind |-> "summary_none", company |-> company]
       ELSE LET latest == CHOOSE y \in own : \A z \in own : z <= y
                row == get_row(c, company, latest)
            IN [kind |-> "summary", company |-> company, latest |-> latest,
                revenue |-> money(Val(row)[REVENUE]),
                net_income |-> money(Val(row)[NET_INCOME]),
                total_assets |-> money(Val(row)[ASSETS]),
                total_liabilities |-> money(Val(row)[LIABILITIES]),
                operating_cash_flow |-> money(Val(row)[CASH_FLOW])]

\* if company and ("summary" in q or "overview" in q)
Summary(c, company) ==
    IF c.years = <<>> THEN Raise("ValueError")
    ELSE LET latest == CHOOSE y \in Range(c.years) : \A z \in Range(c.years) : z <= y
             row == get_row(c, company, latest)
         IN IF IsAbsent(row)
            THEN [kind |-> "summary_none", company |-> company]
            ELSE [kind |-> "summary", company |-> company, latest |-> latest,
                  revenue |-> money(Val(row)[REVENUE]),
                  net_income |-> money(Val(row)[NET_INCOME]),
                  total_assets |-> money(Val(row)[ASSETS]),
                  total_liabilities |-> money(Val(row)[LIABILITIES]),
                  operating_cash_flow |-> money(Val(row)[CASH_FLOW])]

\* the code after the keyword branches
Fallback(c, q) ==
    LET company == find_company(q, c.companies)
        year == find_year(q, c.years)
        metric == find_metric(q)
    IN IF TruthyStr(company) /\ TruthyYear(year) /\ TruthyMetric(metric)
       THEN PointLookup(c, Val(company), Val(year), Val(metric))
       ELSE IF TruthyStr(company) /\ (Contains(W_summary, q) \/ Contains(W_overview, q))
       THEN Summary(c, Val(company))
       ELSE [kind |-> "unknown"]

\* a dispatcher that tests "compare" before "top" / "highest"
handle_query_compare_first(c, qry) ==
    LET q == normalize_text(qry)
    IN IF q \in {W_help, W_h, W_qmark} THEN help_text(c)
       ELSE IF Contains(W_list_companies, q) \/ W_companies = q
       THEN [kind |-> "companies", text |-> Join(<<",", " ">>, c.companies)]
       ELSE IF Contains(W_list_years, q) \/ W_years = q
       THEN [kind |-> "years",
             text |-> Join(<<",", " ">>, [i \in 1..Len(c.years) |-> IntStr(c.years[i])])]
       ELSE IF Contains(W_compare, q) THEN Comparison(c, q)
       ELSE IF Contains(W_top, q) \/ Contains(W_highest, q) THEN Ranking(c, q)
       ELSE IF Contains(W_growth, q) \/ Contains(W_change, q) THEN Growth(c, q)
       ELSE Fallback(c, q)

handle_query(c, qry) ==
    LET q == normalize_text(qry)
    IN IF q \in {W_help, W_h, W_qmark} THEN help_text(c)
       ELSE IF Contains(W_list_companies, q) \/ W_companies = q
       THEN [kind |-> "companies", text |-> Join(<<",", " ">>, c.companies)]
       ELSE IF Contains(W_list_years, q) \/ W_years = q
       THEN [kind |-> "years",
             text |-> Join(<<",", " ">>, [i \in 1..Len(c.years) |-> IntStr(c.years[i])])]
       ELSE IF Contains(W_top, q) \/ Contains(W_highest, q) THEN Ranking(c, q)
       ELSE IF Contains(W_compare, q) THEN Comparison(c, q)
       ELSE IF Contains(W_growth, q) \/ Contains(W_change, q) THEN Growth(c, q)
       ELSE Fallback(c, q)

\* a ranking branch that sorts ctx.rows in place (list.sort) instead of
\* sorting a copy
ContextAfterSortInPlace(c, qry) ==
    LET q == normalize_text(qry)
        metric == find_metric(q)
    IN IF /\ q \notin {W_help, W_h, W_qmark}
          /\ ~(Contains(W_list_companies, q) \/ W_companies = q)
          /\ ~(Contains(W_list_years, q) \/ W_years = q)
          /\ (Contains(W_top, q) \/ Contains(W_highest, q))
          /\ TruthyMetric(metric)
       THEN [c EXCEPT !.rows = SortedByMetric(c.rows, Val(metric))]
       ELSE c

\* what handle_query leaves in ctx: it assigns to no field of it, and its
\* sorted(...) calls build new lists
ContextAfter(c, qry) == c

(***************************************************************************)
(* Datasets                                                                *)
(***************************************************************************)
Apple == <<"A","p","p","l","e">>
Tesla == <<"T","e","s","l","a">>
Ford == <<"F","o","r","d">>
App == <<"A","p","p">>

\* Apple and Tesla tie on 2023 revenue; Ford has no record of the latest year;
\* net income is negative for Apple; Apple's 2023 cash flow is 0
SampleRows == <<
    Row(Apple, 2023, 100, -100, 500, 200, 0),
    Row(Tesla, 2023, 100, 80, 300, 100, 40),
    Row(Ford, 2024, 900, 20, 700, 600, 10),
    Row(Apple, 2025, 150, -50, 12345, 250, 120),
    Row(Tesla, 2025, 80, 0, 400, 100, 60) >>

\* a company whose name is inside another's, a (company, year) pair given
\* twice, and a fiscal year outside 2000..2099
OddRows == <<
    Row(Apple, 2025, 400000, 90, 1, 2, 3),
    Row(App, 2025, 400000, 10, 4, 5, 6),
    Row(Apple, 2025, 7, 95, 7, 8, 9),
    Row(App, 1999, 5, 5, 5, 5, 5) >>

QueryDataSets == {<<>>, SampleRows, OddRows}

(***************************************************************************)
(* Queries for the dispatcher: up to two trigger phrases, then a company,  *)
(* a metric and two years, each optional, separated by single spaces       *)
(***************************************************************************)
LeadPhrases == {
    <<>>,
    <<"h","e","l","p">>,
    <<"h">>,
    <<"?">>,
    <<"c","o","m","p","a","n","i","e","s">>,
    <<"l","i","s","t"," ","c","o","m","p","a","n","i","e","s">>,
    <<"y","e","a","r","s">>,
    <<"l","i","s","t"," ","y","e","a","r","s">>,
    <<"t","o","p">>,
    <<"H","i","g","h","e","s","t">>,
    <<"c","o","m","p","a","r","e">>,
    <<"g","r","o","w","t","h">>,
    <<"c","h","a","n","g","e">>,
    <<"s","u","m","m","a","r","y">>,
    <<"o","v","e","r","v","i","e","w">> }

SecondPhrases == {
    <<>>,
    <<"t","o","p">>,
    <<"c","o","m","p","a","r","e">>,
    <<"g","r","o","w","t","h">>,
    <<"s","u","m","m","a","r","y">>,
    <<"l","i","s","t"," ","y","e","a","r","s">> }

CompanyPhrases == {
    <<>>,
    <<"a","p","p","l","e">>,
    <<"T","e","s","l","a">> }

MetricPhrases == {
    <<>>,
    <<"r","e","v","e","n","u","e">>,
    <<"n","e","t"," ","i","n","c","o","m","e">>,
    <<"c","f","o">> }

FirstYearPhrases == {
    <<>>,
    <<"2","0","2","3">>,
    <<"2","0","1","9">>,
    <<"2","0","2","5">> }

SecondYearPhrases == {
    <<>>,
    <<"2","0","2","3">>,
    <<"2","0","2","5">> }

\* the non-empty phrases of ps, joined by single spaces
Phrase(ps) ==
    Join(<<" ">>, FilterSeq(ps, [i \in 1..Len(ps) |-> ps[i] # <<>>]))

DispatchQueries ==
    {Phrase(<<a, b, c, m, y, z>>) :
        a \in LeadPhrases, b \in SecondPhrases, c \in CompanyPhrases,
        m \in MetricPhrases, y \in FirstYearPhrases, z \in SecondYearPhrases}

(***************************************************************************)
(* One call of handle_query                                                *)
(***************************************************************************)
Pending == [kind |-> "pending"]

InitCall(dataSets, queries) ==
    /\ \E rows \in dataSets : ctx = load_data(rows)
    /\ loaded = ctx
    /\ query \in queries
    /\ response = Pending
    /\ pc = "call"
    /\ pinned = Absent

HandleQuery ==
    /\ pc = "call"
    /\ response' = handle_query(ctx, query)
    /\ ctx' = ContextAfter(ctx, query)
    /\ pc' = "done"
    /\ UNCHANGED <<loaded, query, pinned>>

InitQuery == InitCall(QueryDataSets, DispatchQueries)

SpecQuery == InitQuery /\ [][HandleQuery]_vars

\* all sequences of at most n elements of S
SeqsUpTo(S, n) == UNION {[1..k -> S] : k \in 0..n}

(***************************************************************************)
(* Ranking: datasets of up to MaxRankRows records in any load order        *)
(***************************************************************************)
MaxRankRows == 3

\* net income falls as revenue rises, so the two metrics rank differently
RankRow(company, year, rev) == Row(company, year, rev, 1000 - rev, 0, 0, 0)

RankRowPool ==
    {RankRow(c, 2025, v) : c \in {Apple, Tesla, Ford}, v \in {300, 500, 900}}
    \cup {RankRow(Apple, 2024, 900), RankRow(Tesla, 2024, 300)}

RankQueries == {
    <<"t","o","p"," ","r","e","v","e","n","u","e"," ","2","0","2","5">>,
    <<"H","i","g","h","e","s","t"," ","n","e","t"," ","i","n","c","o","m","e"," ","i","n"," ","2","0","2","5">>,
    <<"t","o","p"," ","r","e","v","e","n","u","e">>,
    <<"t","o","p"," ","2","0","2","5">>,
    <<"w","h","i","c","h"," ","c","o","m","p","a","n","y"," ","h","a","d"," ","t","h","e"," ","t","o","p"," ","r","e","v","e","n","u","e"," ","i","n"," ","2","0","2","4">> }

InitRanking == InitCall(SeqsUpTo(RankRowPool, MaxRankRows), RankQueries)

SpecRanking == InitRanking /\ [][HandleQuery]_vars

(***************************************************************************)
(* Growth: a company with an old and a new value, and queries that name    *)
(* up to MaxYearTokens years                                               *)
(***************************************************************************)
MaxYearTokens == 3

GrowthValues == {-100, 0, 80, 100, 150}

\* Apple has no record of 2024, a year the dataset knows from Tesla
GrowthRows(old, new) == <<
    Row(Apple, 2023, old, new, 0, 0, 0),
    Row(Tesla, 2024, 10, 20, 30, 40, 50),
    Row(Apple, 2025, new, old, 0, 0, 0) >>

GrowthDataSets ==
    {GrowthRows(old, new) : old \in GrowthValues, new \in GrowthValues}
    \cup {<<>>, <<Row(Apple, 2023, 100, 100, 0, 0, 0)>>}

GrowthLeads == {
    <<"g","r","o","w","t","h"," ","o","f"," ","a","p","p","l","e"," ","r","e","v","e","n","u","e">>,
    <<"C","h","a","n","g","e"," ","i","n"," ","A","p","p","l","e"," ","n","e","t"," ","i","n","c","o","m","e">>,
    <<"g","r","o","w","t","h"," ","o","f"," ","r","e","v","e","n","u","e">>,
    <<"g","r","o","w","t","h"," ","o","f"," ","a","p","p","l","e">> }

YearTokens == {
    <<"2","0","2","3">>,
    <<"2","0","2","4">>,
    <<"2","0","2","5">>,
    <<"2","0","1","9">>,
    <<"2","0","2","0","2","5">> }

GrowthQueries ==
    {Phrase(<<lead>> \o ys) : lead \in GrowthLeads, ys \in SeqsUpTo(YearTokens, MaxYearTokens)}

InitGrowth == InitCall(GrowthDataSets, GrowthQueries)

SpecGrowth == InitGrowth /\ [][HandleQuery]_vars

(***************************************************************************)
(* Summary: datasets of up to MaxSummaryRows records                       *)
(***************************************************************************)
MaxSummaryRows == 3

SummaryRowPool == {
    Row(Apple, 2024, 11, 12, 13, 14, 15),
    Row(Apple, 2025, 21, 22, 23, 24, 25),
    Row(Tesla, 2024, 31, 32, 33, 34, 35),
    Row(Tesla, 2025, 41, 42, 43, 44, 45),
    Row(App, 2025, 51, 52, 53, 54, 55) }

SummaryQueries == {
    <<"a","p","p","l","e"," ","s","u","m","m","a","r","y">>,
    <<"T","e","s","l","a"," ","o","v","e","r","v","i","e","w">>,
    <<"s","u","m","m","a","r","y">>,
    <<"a","p","p","l","e">>,
    <<"a","p","p","l","e"," ","s","u","m","m","a","r","y"," ","2","0","2","4">>,
    <<"a","p","p","l","e"," ","r","e","v","e","n","u","e"," ","s","u","m","m","a","r","y"," ","2","0","2","5">>,
    <<"a","p","p","l","e"," ","r","e","v","e","n","u","e"," ","s","u","m","m","a","r","y">>,
    <<"t","o","p"," ","a","p","p","l","e"," ","s","u","m","m","a","r","y">>,
    <<"t","e","s","l","a"," ","r","e","v","e","n","u","e"," ","2","0","2","4"," ","o","v","e","r","v","i","e","w">>,
    <<"g","r","o","w","t","h"," ","s","u","m","m","a","r","y"," ","t","e","s","l","a">>,
    <<"s","u","m","m","a","r","y"," ","o","f"," ","t","e","s","l","a"," ","a","n","d"," ","a","p","p","l","e">>,
    <<"T","e","s","l","a"," "," ","S","u","m","m","a","r","y"," ","2","0","1","9">> }

InitSummary == InitCall(SeqsUpTo(SummaryRowPool, MaxSummaryRows), SummaryQueries)

SpecSummary == InitSummary /\ [][HandleQuery]_vars

(***************************************************************************)
(* find_company alone: up to MaxNames companies, and as query every way    *)
(* of writing a name of the pool in upper and lower case                   *)
(***************************************************************************)
MaxNames == 3

NamePool == {
    <<"A","p","p">>,
    <<"A","p","p","l","e">>,
    <<"a","p","p","l","e">>,
    <<"T","e","s","l","a">>,
    <<"I","B","M">>,
    <<"A","b"," "," ","C","o">>,
    <<"F","o","r","d"," ">> }

\* the strings that differ from name in letter case only
CaseOf == [c \in Chars |-> {d \in Chars : LowerChar[d] = LowerChar[c]}]

RECURSIVE CaseVariants(_)
CaseVariants(name) ==
    IF name = <<>> THEN {<<>>}
    ELSE {<<c>> \o rest : c \in CaseOf[Head(name)], rest \in CaseVariants(Tail(name))}

NameQueries == UNION {CaseVariants(n) : n \in NamePool}

\* one record per company, loaded in reverse alphabetical order
RECURSIVE Reverse(_)
Reverse(xs) == IF xs = <<>> THEN <<>> ELSE Reverse(Tail(xs)) \o <<Head(xs)>>

RowsOfNames(S) ==
    LET names == Reverse(SortedStrings(S))
    IN [i \in 1..Len(names) |-> Row(names[i], 2025, 1, 2, 3, 4, 5)]

\* the names of the pool that whitespace normalisation leaves as they are
PlainNames == {n \in NamePool : normalize_text(n) = Lower(n)}

NameSets == {T \in SUBSET NamePool : Cardinality(T) <= MaxNames}

NameDataSets(sets) == {RowsOfNames(S) : S \in sets}

InitCompany ==
    \/ InitCall(NameDataSets({S \in NameSets : S \subseteq PlainNames}), NameQueries)
    \/ InitCall(NameDataSets({S \in NameSets : ~(S \subseteq PlainNames)}), NameQueries)

FindCompany ==
    /\ pc = "call"
    /\ response' = find_company(query, ctx.companies)
    /\ pc' = "done"
    /\ UNCHANGED <<ctx, loaded, query, pinned>>

SpecCompany == InitCompany /\ [][FindCompany]_vars

(***************************************************************************)
(* find_year alone: queries of up to MaxYearParts pieces                   *)
(***************************************************************************)
MaxYearParts == 4

YearParts == {
    <<"2","0","2","5">>,
    <<"2","0","2","0">>,
    <<"1","9","9","9">>,
    <<"2","0">>,
    <<"2">>,
    <<"5">>,
    <<" ">>,
    <<"i","n"," ">> }

YearQueries == {Cat(ps) : ps \in SeqsUpTo(YearParts, MaxYearParts)}

YearRows(S) ==
    LET ys == SortedInts(S)
    IN [i \in 1..Len(ys) |-> Row(Apple, ys[i], 1, 2, 3, 4, 5)]

YearDataSets == {YearRows(S) : S \in {{}, {2025}, {2020, 2025}, {1999, 2025}}}

InitYear == InitCall(YearDataSets, YearQueries)

FindYear ==
    /\ pc = "call"
    /\ response' = find_year(query, ctx.years)
    /\ pc' = "done"
    /\ UNCHANGED <<ctx, loaded, query, pinned>>

SpecYear == InitYear /\ [][FindYear]_vars

(***************************************************************************)
(* find_metric alone: queries of up to MaxMetricParts pieces               *)
(***************************************************************************)
MaxMetricParts == 3

MetricParts == {
    <<"r","e","v","e","n","u","e">>,
    <<"t","o","t","a","l"," ","r","e","v","e","n","u","e">>,
    <<"i","n","c","o","m","e">>,
    <<"n","e","t"," ","i","n","c","o","m","e">>,
    <<"p","r","o","f","i","t">>,
    <<"a","s","s","e","t","s">>,
    <<"t","o","t","a","l"," ","a","s","s","e","t","s">>,
    <<"l","i","a","b","i","l","i","t","i","e","s">>,
    <<"t","o","t","a","l"," ","l","i","a","b","i","l","i","t","i","e","s">>,
    <<"d","e","b","t">>,
    <<"c","a","s","h"," ","f","l","o","w">>,
    <<"o","p","e","r","a","t","i","n","g"," ","c","a","s","h"," ","f","l","o","w">>,
    <<"c","f","o">>,
    <<" ">>,
    <<"N","e","t"," ">>,
    <<" ","o","f"," ">> }

MetricQueries == {Cat(ps) : ps \in SeqsUpTo(MetricParts, MaxMetricParts)}

InitMetric == InitCall({<<>>}, MetricQueries)

FindMetric ==
    /\ pc = "call"
    /\ response' = find_metric(query)
    /\ pc' = "done"
    /\ UNCHANGED <<ctx, loaded, query, pinned>>

SpecMetric == InitMetric /\ [][FindMetric]_vars

(***************************************************************************)
(* main: the read loop.  Each action is one iteration of the loop for one  *)
(* line of input.                                                          *)
(***************************************************************************)
SessionLines == {
    <<>>,
    <<" "," "," ">>,
    <<"e","x","i","t">>,
    <<" ","Q","U","I","T"," ">>,
    <<"h","e","l","p">>,
    <<"l","i","s","t"," ","c","o","m","p","a","n","i","e","s">>,
    <<"y","e","a","r","s">>,
    <<"t","o","p"," ","r","e","v","e","n","u","e"," ","2","0","2","3">>,
    <<"H","i","g","h","e","s","t"," ","n","e","t"," ","i","n","c","o","m","e"," ","i","n"," ","2","0","2","5">>,
    <<"c","o","m","p","a","r","e"," ","r","e","v","e","n","u","e"," ","2","0","2","3">>,
    <<"c","o","m","p","a","r","e"," ","n","e","t"," ","i","n","c","o","m","e"," ","2","0","2","5">>,
    <<"g","r","o","w","t","h"," ","o","f"," ","a","p","p","l","e"," ","r","e","v","e","n","u","e"," ","f","r","o","m"," ","2","0","2","3"," ","t","o"," ","2","0","2","5">>,
    <<"c","h","a","n","g","e"," ","i","n"," ","t","e","s","l","a"," ","n","e","t"," ","i","n","c","o","m","e"," ","2","0","2","5"," ","2","0","2","3">>,
    <<"A","p","p","l","e"," ","r","e","v","e","n","u","e"," ","2","0","2","5">>,
    <<"a","p","p","l","e"," "," ","R","E","V","E","N","U","E"," ","2","0","2","5">>,
    <<"a","p","p"," ","r","e","v","e","n","u","e"," ","2","0","2","5">>,
    <<"t","e","s","l","a"," ","c","a","s","h"," ","f","l","o","w"," ","2","0","2","3">>,
    <<"f","o","r","d"," ","s","u","m","m","a","r","y">>,
    <<"A","p","p","l","e"," ","o","v","e","r","v","i","e","w">>,
    <<"w","h","a","t"," ","i","s"," ","t","h","e"," ","w","e","a","t","h","e","r">> }

SessionDataSets == {<<>>, SampleRows, OddRows}

Init ==
    /\ \E rows \in SessionDataSets : ctx = load_data(rows)
    /\ loaded = ctx
    /\ query = <<>>
    /\ response = Pending
    /\ pc = "input"
    /\ pinned = Absent

\* input() raises EOFError or KeyboardInterrupt
EndOfInput ==
    /\ pc = "input"
    /\ pc' = "exit"
    /\ UNCHANGED <<ctx, loaded, query, response, pinned>>

\* if not user: continue
BlankLine(line) ==
    /\ pc = "input"
    /\ Strip(line) = <<>>
    /\ UNCHANGED vars

\* if normalize_text(user) in {"exit", "quit"}: break
Quit(line) ==
    /\ pc = "input"
    /\ Strip(line) # <<>>
    /\ normalize_text(Strip(line)) \in {W_exit, W_quit}
    /\ pc' = "exit"
    /\ UNCHANGED <<ctx, loaded, query, response, pinned>>

\* print("Bot:", handle_query(ctx, user)).  pinned remembers one earlier
\* query of the session with the response it got, and whether a different
\* query has been answered since.
Ask(line) ==
    /\ pc = "input"
    /\ Strip(line) # <<>>
    /\ normalize_text(Strip(line)) \notin {W_exit, W_quit}
    /\ query' = Strip(line)
    /\ response' = handle_query(ctx, Strip(line))
    /\ ctx' = ContextAfter(ctx, Strip(line))
    /\ \/ /\ pinned = Absent
          /\ pinned' = Absent
       \/ /\ pinned = Absent
          /\ pinned' = Some([query |-> query', response |-> response', later |-> FALSE])
       \/ /\ pinned # Absent
          /\ pinned' = Some([Val(pinned) EXCEPT !.later = @ \/ query' # Val(pinned).query])
    /\ UNCHANGED <<loaded, pc>>

Next ==
    \/ EndOfInput
    \/ \E line \in SessionLines : BlankLine(line)
    \/ \E line \in SessionLines : Quit(line)
    \/ \E line \in SessionLines : Ask(line)

Spec == Init /\ [][Next]_vars

(***************************************************************************)
(* Properties                                                              *)
(***************************************************************************)
TextKinds == {"help", "companies", "years", "ranking_guidance", "ranking",
              "compare_guidance", "compare", "growth_guidance", "growth_years",
              "growth_missing", "growth", "lookup_nodata", "lookup",
              "summary_none", "summary", "unknown"}

\* C1: handle_query never fails: for every dataset the loader builds (the
\* empty one included) and every query it returns one of its text responses
\* and raises nothing, also in the ranking handler (first element of the
\* year-filtered list), the growth handler with old value 0 and the summary
\* handler (maximum of the dataset years).
C1_NeverRaises == pc = "done" => response.kind \in TextKinds

\* C1 witness: a growth report whose old value is 0, with 0.00 percent
C1_GrowthFromZero ==
    /\ pc = "done"
    /\ response.kind = "growth"
    /\ response.old = money(0)
    /\ Contains(<<"(", "+", "0", ".", "0", "0", "%", ")">>, response.change)

\* the branch of the dispatcher whose trigger is the first to match
ExpectedBranch(c, qry) ==
    LET q == normalize_text(qry)
        company == find_company(q, c.companies)
        year == find_year(q, c.years)
        metric == find_metric(q)
    IN IF q = W_help \/ q = W_h \/ q = W_qmark THEN 1
       ELSE IF Contains(W_list_companies, q) \/ q = W_companies THEN 2
       ELSE IF Contains(W_list_years, q) \/ q = W_years THEN 3
       ELSE IF Contains(W_top, q) \/ Contains(W_highest, q) THEN 4
       ELSE IF Contains(W_compare, q) THEN 5
       ELSE IF Contains(W_growth, q) \/ Contains(W_change, q) THEN 6
       ELSE IF ~IsAbsent(company) /\ ~IsAbsent(year) /\ ~IsAbsent(metric) THEN 7
       ELSE IF ~IsAbsent(company) /\ (Contains(W_summary, q) \/ Contains(W_overview, q)) THEN 7
       ELSE 8

\* the branch a response template belongs to
BranchOfKind(kind) ==
    CASE kind = "help" -> 1
      [] kind = "companies" -> 2
      [] kind = "years" -> 3
      [] kind \in {"ranking_guidance", "ranking"} -> 4
      [] kind \in {"compare_guidance", "compare"} -> 5
      [] kind \in {"growth_guidance", "growth_years", "growth_missing", "growth"} -> 6
      [] kind \in {"lookup_nodata", "lookup", "summary_none", "summary"} -> 7
      [] kind = "unknown" -> 8
      [] OTHER -> 0

AllThree(c, qry) ==
    /\ ~IsAbsent(find_company(qry, c.companies))
    /\ ~IsAbsent(find_year(normalize_text(qry), c.years))
    /\ ~IsAbsent(find_metric(qry))

\* C2: the dispatcher tries its branches in the fixed order help, list
\* companies, list years, ranking, comparison, growth, point lookup then
\* summary, not-understood; the response always comes from the earliest
\* branch whose trigger matches, whatever later triggers or company, year
\* and metric the query also holds.
C2_FirstMatchWins ==
    pc = "done" =>
        /\ BranchOfKind(response.kind) = ExpectedBranch(ctx, query)
        /\ ExpectedBranch(ctx, query) = 7 =>
              (response.kind \in {"lookup", "lookup_nodata"} <=> AllThree(ctx, query))

\* C2 witness: "top" shadows "growth" in a query that also names a company,
\* a metric and a year
C2_TopShadowsGrowth ==
    /\ pc = "done"
    /\ Contains(W_top, normalize_text(query))
    /\ Contains(W_growth, normalize_text(query))
    /\ AllThree(ctx, query)
    /\ response.kind = "ranking"

Unshadowed(companies, i) ==
    /\ normalize_text(companies[i]) = Lower(companies[i])
    /\ \A j \in 1..(i - 1) : ~Contains(Lower(companies[j]), Lower(companies[i]))

OnlyYear(s, y) ==
    /\ Contains(IntStr(y), s)
    /\ \A i \in 1..Len(s) : YearAt(s, i) => SubSeq(s, i, i + 3) = IntStr(y)

\* the first match of 20\d{2} in s is a number outside years
FirstMatchUnknown(s, years) ==
    /\ ~IsAbsent(SearchYear(s))
    /\ ParseInt(Val(SearchYear(s))) \notin Range(years)

\* C5 as stated: for every year Y of the dataset, find_year on a query that
\* contains Y as a 4-digit substring and no other year returns Y; and when the
\* first "20xx" match is not a year of the dataset find_year returns absent.
C5_FindsEveryDatasetYear ==
    pc = "done" =>
        /\ \A y \in Range(ctx.years) : OnlyYear(query, y) => response = Some(y)
        /\ FirstMatchUnknown(query, ctx.years) => response = Absent

\* C5 amended: for every year Y of the dataset between 2000 and 2099,
\* find_year on a query that contains Y as a 4-digit substring and no other
\* year returns Y; and when the first "20xx" match is not a year of the
\* dataset find_year returns absent, even if a later match is one.
C5_FindsDatasetYearsOf2000s ==
    pc = "done" =>
        /\ \A y \in Range(ctx.years) \cap (2000..2099) :
              OnlyYear(query, y) => response = Some(y)
        /\ FirstMatchUnknown(query, ctx.years) => response = Absent

\* C5 witness: the first match, 2020, is unknown and the later 2025 is known
C5_FirstMatchDecides ==
    /\ pc = "done"
    /\ SearchYear(query) = Some(<<"2", "0", "2", "0">>)
    /\ 2020 \notin Range(ctx.years)
    /\ 2025 \in Range(ctx.years)
    /\ Contains(<<"2", "0", "2", "5">>, query)
    /\ response = Absent

\* the aliases (by index in METRIC_ALIASES) that occur in the normalized query
OccurringAliases(qry) ==
    {i \in 1..Len(METRIC_ALIASES) : Contains(METRIC_ALIASES[i][1], normalize_text(qry))}

\* C6: find_metric returns the metric of an alias of maximal length among
\* the aliases that occur in the normalized query, and is absent exactly
\* when no alias occurs.
C6_LongestAliasWins ==
    pc = "done" =>
        LET occ == OccurringAliases(query)
        IN /\ response = Absent <=> occ = {}
           /\ occ # {} =>
                \E i \in occ :
                    /\ \A j \in occ : Len(METRIC_ALIASES[j][1]) <= Len(METRIC_ALIASES[i][1])
                    /\ response = Some(METRIC_ALIASES[i][2])

\* C6 witness: "total assets" wins over the shorter "revenue", which comes
\* first in the dictionary and names another metric
C6_LongerAliasOfOtherMetric ==
    /\ pc = "done"
    /\ Contains(<<"r","e","v","e","n","u","e">>, normalize_text(query))
    /\ Contains(<<"t","o","t","a","l"," ","a","s","s","e","t","s">>, normalize_text(query))
    /\ response = Some(ASSETS)

\* the rows of year whose value of metric is the largest of that year
IsYearMaximum(rows, i, year, metric) ==
    /\ rows[i][FISCAL_YEAR] = year
    /\ \A j \in 1..Len(rows) : rows[j][FISCAL_YEAR] = year => rows[j][metric] <= rows[i][metric]

\* C8: in the ranking branch, with metric and year both extracted the
\* company reported is that of a record of the year whose metric value is
\* the maximum of the year, the first such record in load order when several
\* share the maximum; with metric or year absent the guidance message is
\* returned.
C8_RankingPicksFirstMaximum ==
    (pc = "done" /\ ExpectedBranch(ctx, query) = 4) =>
        LET metric == find_metric(query)
            year == find_year(normalize_text(query), ctx.years)
        IN IF IsAbsent(metric) \/ IsAbsent(year)
           THEN response.kind = "ranking_guidance"
           ELSE /\ response.kind = "ranking"
                /\ \E i \in 1..Len(ctx.rows) :
                      /\ IsYearMaximum(ctx.rows, i, Val(year), Val(metric))
                      /\ \A j \in 1..(i - 1) :
                            ~IsYearMaximum(ctx.rows, j, Val(year), Val(metric))
                      /\ response.company = ctx.rows[i][COMPANY]
                      /\ response.value = money(ctx.rows[i][Val(metric)])

\* C8 witness: two companies share the maximum of the year and the one
\* loaded first is reported
C8_TieGoesToFirstLoaded ==
    /\ pc = "done"
    /\ response.kind = "ranking"
    /\ \E i, j \in 1..Len(ctx.rows) :
          /\ i < j
          /\ IsYearMaximum(ctx.rows, i, response.year, response.metric)
          /\ IsYearMaximum(ctx.rows, j, response.year, response.metric)
          /\ ctx.rows[i][COMPANY] # ctx.rows[j][COMPANY]
          /\ \A k \in 1..(i - 1) : ~IsYearMaximum(ctx.rows, k, response.year, response.metric)
          /\ response.company = ctx.rows[i][COMPANY]

\* every 20xx substring of s as a number, overlapping occurrences included
AllYearSubstrings(s) ==
    {ParseInt(SubSeq(s, i, i + 3)) : i \in {j \in 1..Len(s) : YearAt(s, j)}}

\* the non-overlapping 20xx matches of s, found scanning left to right
ScannedYears(s) == {ParseInt(y) : y \in Range(FindAllYears(s))}

HasRow(c, company, year) ==
    \E i \in 1..Len(c.rows) :
        Lower(c.rows[i][COMPANY]) = Lower(company) /\ c.rows[i][FISCAL_YEAR] = year

\* the checks of the growth handler in the order of claim C9, for a given
\* set of collected years
GrowthChecks(c, qry, years, r) ==
    LET company == find_company(qry, c.companies)
        metric == find_metric(qry)
    IN IF IsAbsent(company) \/ IsAbsent(metric) \/ Cardinality(years) < 2
       THEN r.kind = "growth_guidance"
       ELSE LET y1 == CHOOSE y \in years : \A z \in years : y <= z
                y2 == CHOOSE y \in years : \A z \in years : z <= y
            IN IF y1 \notin Range(c.years) \/ y2 \notin Range(c.years)
               THEN r.kind = "growth_years"
               ELSE IF ~HasRow(c, Val(company), y1) \/ ~HasRow(c, Val(company), y2)
               THEN r.kind = "growth_missing" /\ r.y1 = y1 /\ r.y2 = y2
               ELSE /\ r.kind = "growth"
                    /\ r.company = Val(company)
                    /\ r.metric = Val(metric)
                    /\ r.y1 = y1
                    /\ r.y2 = y2
                    /\ r.old = money(Val(get_row(c, Val(company), y1))[Val(metric)])
                    /\ r.new = money(Val(get_row(c, Val(company), y2))[Val(metric)])

\* C9 as stated: the growth handler collects all distinct "20xx" substrings
\* of the query, takes their minimum and maximum as endpoints whatever lies
\* between, and checks in the order guidance, available years, missing data,
\* change report.
C9_GrowthOverAllYearSubstrings ==
    (pc = "done" /\ ExpectedBranch(ctx, query) = 6) =>
        GrowthChecks(ctx, query, AllYearSubstrings(normalize_text(query)), response)

\* C9 amended: the growth handler collects the distinct non-overlapping
\* "20xx" matches found scanning the query left to right, takes their
\* minimum and maximum as endpoints whatever lies between, and checks in
\* the order guidance, available years, missing data, change report.
C9_GrowthOverScannedYears ==
    (pc = "done" /\ ExpectedBranch(ctx, query) = 6) =>
        GrowthChecks(ctx, query, ScannedYears(normalize_text(query)), response)

\* C9 witness: three years named latest first; the report runs from the
\* earliest to the latest, and the year between, of which the company has no
\* record, plays no part
C9_EndpointsOfThreeYears ==
    /\ pc = "done"
    /\ response.kind = "growth"
    /\ FindAllYears(normalize_text(query)) =
          << <<"2","0","2","5">>, <<"2","0","2","4">>, <<"2","0","2","3">> >>
    /\ response.y1 = 2023
    /\ response.y2 = 2025
    /\ ~HasRow(ctx, response.company, 2024)

\* C7: in a growth report with old value other than 0 the delta is shown as
\* its absolute value with the sign of delta = new - old and the percentage
\* as its absolute value, to two decimals, with the sign of delta / old x
\* 100; with old value 0 the percentage shown is 0.
C7_SignsOfDeltaAndPercent ==
    (pc = "done" /\ response.kind = "growth") =>
        LET old == Val(get_row(ctx, response.company, response.y1))[response.metric]
            new == Val(get_row(ctx, response.company, response.y2))[response.metric]
            delta == new - old
            dsign == IF delta >= 0 THEN "+" ELSE "-"
            psign == IF delta * old >= 0 THEN "+" ELSE "-"
            pct == [num |-> delta * 100, den |-> old]
        IN IF old # 0
           THEN response.change = <<dsign>> \o money(Abs(delta)) \o <<" ", "(">>
                                  \o <<psign>> \o FormatAbsPct(pct) \o <<"%", ")">>
           ELSE \E s \in {"+", "-"} :
                   response.change = <<dsign>> \o money(Abs(delta)) \o <<" ", "(">>
                                     \o <<s>> \o <<"0", ".", "0", "0", "%", ")">>

\* the summary branch: no earlier trigger matched, company, year and metric
\* are not all three extracted, a company is, and the query holds "summary"
\* or "overview"
SummaryReached(c, qry) == ExpectedBranch(c, qry) = 7 /\ ~AllThree(c, qry)

LatestYear(c) == CHOOSE y \in Range(c.years) : \A z \in Range(c.years) : z <= y

IsSummaryBlock(r, row, company, latest) ==
    /\ r.kind = "summary"
    /\ r.company = company
    /\ r.latest = latest
    /\ r.revenue = money(row[REVENUE])
    /\ r.net_income = money(row[NET_INCOME])
    /\ r.total_assets = money(row[ASSETS])
    /\ r.total_liabilities = money(row[LIABILITIES])
    /\ r.operating_cash_flow = money(row[CASH_FLOW])

\* C10 as stated: the summary handler is reached exactly in the summary
\* branch, uses the maximum year of the dataset, and every company with at
\* least one record that is asked for a summary gets the five-line block.
C10_EveryCompanyGetsSummary ==
    pc = "done" =>
        /\ response.kind \in {"summary", "summary_none"} <=> SummaryReached(ctx, query)
        /\ SummaryReached(ctx, query) =>
              LET company == Val(find_company(query, ctx.companies))
                  latest == LatestYear(ctx)
              IN /\ HasRow(ctx, company, latest)
                 /\ IsSummaryBlock(response, Val(get_row(ctx, company, latest)), company, latest)

\* C10 amended: the summary handler is reached exactly in the summary
\* branch and uses the maximum year of the dataset; a company with a record
\* of that year gets the five-line block of that record, and a company
\* whose records are all of earlier years gets the no-summary message.
C10_SummaryOfLatestDatasetYear ==
    pc = "done" =>
        /\ response.kind \in {"summary", "summary_none"} <=> SummaryReached(ctx, query)
        /\ SummaryReached(ctx, query) =>
              LET company == Val(find_company(query, ctx.companies))
                  latest == LatestYear(ctx)
              IN IF HasRow(ctx, company, latest)
                 THEN IsSummaryBlock(response, Val(get_row(ctx, company, latest)),
                                     company, latest)
                 ELSE response.kind = "summary_none" /\ response.company = company

\* C10 witness: a block for the latest dataset year, which the query does
\* not name, of a company that also has an earlier record
C10_BlockOfLatestYear ==
    /\ pc = "done"
    /\ response.kind = "summary"
    /\ response.latest = 2025
    /\ ~Contains(<<"2", "0", "2", "5">>, query)
    /\ HasRow(ctx, response.company, 2024)

====
